---- MODULE Spec2Model ----
(***************************************************************************)
(* Boundary-resolution pipeline of gdamApp.py: group and country           *)
(* resolution, the dataset loaders, name-field selection, geometry         *)
(* extraction, aggregation and the Run Query handler.                      *)
(*                                                                         *)
(* A GeoDataFrame is a record [columns, rows]: the set of attribute column *)
(* names and the sequence of rows, each row a function from the columns    *)
(* and "geometry" to a value.  Attribute values are strings or None; the   *)
(* geometry value is the geometry's type (or None for a null geometry).    *)
(* A function's outcome is a record: [ok |-> TRUE, ...its value...] or     *)
(* [ok |-> FALSE, err |-> the exception], with io the file-store and       *)
(* resolver calls it made, in order.                                       *)
(***************************************************************************)
EXTENDS Integers, Sequences, FiniteSets, TLC

VARIABLES
    store,          \* the backing file store: groups.json, level1.json, shapefiles
    call,           \* the function call under examination (function harnesses)
    ret,            \* its outcome
    pc,             \* Run Query handler: position in the script
    queries,        \* parsed.queries
    i,              \* index of the next item of the query loop
    geoJson_List,   \* the list handed to combine_geojsons
    origin,         \* for each entry of geoJson_List, the index of its request
    warnings,       \* st.warning calls, in order
    topError,       \* st.error calls of the outer except, in order
    combined,       \* the value of combine_geojsons, once it returned
    shown,          \* whether the map was created, saved and displayed
    importing,      \* loader: st.session_state.importing
    logs,           \* loader: st.session_state.logs, as the sequence of its lines
    history,        \* loader: st.session_state.history
    script,         \* loader: position of the running script run and import_osm's arguments
    process,        \* loader: the subprocess of the latest import_osm call
    rerun,          \* loader: the widget interaction waiting for a script run
    now,            \* loader: the wall clock read by datetime.now()
    exits           \* loader: the exit codes of the subprocesses that exited, in order

fvars == <<call, ret>>
hvars == <<pc, queries, i, geoJson_List, origin, warnings, topError, combined, shown>>
lvars == <<importing, logs, history, script, process, rerun, now, exits>>
vars == <<store, call, ret, pc, queries, i, geoJson_List, origin, warnings, topError,
          combined, shown, importing, logs, history, script, process, rerun, now, exits>>

----------------------------------------------------------------------------
(* Bounds *)

MaxLevel == 2       \* shapefiles exist for admin levels 0..MaxLevel at most
MaxRows == 2        \* rows of a generated dataset, features of a generated collection
MaxQueries == 3     \* area requests of one parsed query
MaxItems == 3       \* inputs of one combine_geojsons call

----------------------------------------------------------------------------
(* Python values *)

None == "<None>"

\* Python truthiness of an Optional[str]
Truthy(s) == s # None /\ s # ""

\* str.lower() on the strings the model uses
Lower(s) ==
    CASE s = "France" -> "france"
      [] s = "FRANCE" -> "france"
      [] s = "Paris" -> "paris"
      [] s = "Dubai" -> "dubai"
      [] s = "DUBAI" -> "dubai"
      [] s = "Abu Dhabi" -> "abu dhabi"
      [] s = "United Arab Emirates" -> "united arab emirates"
      [] s = "Narnia" -> "narnia"
      [] s = "Qatar" -> "qatar"
      [] s = "Deira" -> "deira"
      [] s = "Al Ain" -> "al ain"
      [] s = "GCC" -> "gcc"
      [] s = " GCC " -> " gcc "
      [] s = "EU" -> "eu"
      [] s = "European Union" -> "european union"
      [] s = "Nordic" -> "nordic"
      [] s = "UNITED ARAB EMIRATES" -> "united arab emirates"
      [] s = "Mars" -> "mars"
      [] s = "FRA" -> "fra"
      [] s = "ARE" -> "are"
      [] OTHER -> s

\* str.upper() on the country codes the model uses
Upper(s) ==
    CASE s = "fra" -> "FRA"
      [] s = "are" -> "ARE"
      [] OTHER -> s

\* str.strip() on the strings the model uses
Strip(s) ==
    CASE s = " " -> ""
      [] s = "  " -> ""
      [] s = " GCC " -> "GCC"
      [] s = " EU " -> "EU"
      [] s = " gcc " -> "gcc"
      [] s = " Dubai " -> "Dubai"
      [] OTHER -> s

Raise(e, io) == [ok |-> FALSE, err |-> e, io |-> io]
Return(gdf, io) == [ok |-> TRUE, err |-> None, gdf |-> gdf, io |-> io]

\* gdf[mask]: the rows kept, in order, with the same columns
WithRows(gdf, rows) == [columns |-> gdf.columns, rows |-> rows]

----------------------------------------------------------------------------
(* load_from_shapefile *)

\* os.path.join(base_path, country_iso3, f"{country_iso3.lower()}_{level}.shp")
ShpPath(country_iso3, level) ==
    [dir |-> country_iso3, stem |-> Lower(country_iso3), level |-> level]

PathExists(st, path) == path \in DOMAIN st.shp

\* The paths probed by the fallback loop from `level` down: it stops at the first hit
RECURSIVE ProbedPaths(_, _, _)
ProbedPaths(st, country_iso3, level) ==
    IF level < 0 THEN <<>>
    ELSE IF PathExists(st, ShpPath(country_iso3, level))
         THEN <<ShpPath(country_iso3, level)>>
         ELSE <<ShpPath(country_iso3, level)>> \o ProbedPaths(st, country_iso3, level - 1)

\* A loop that stops above level 0: range(admin_level, 0, -1)
RECURSIVE FoundLevelAboveZero(_, _, _)
FoundLevelAboveZero(st, country_iso3, level) ==
    IF level < 1 THEN -1
    ELSE IF PathExists(st, ShpPath(country_iso3, level)) THEN level
         ELSE FoundLevelAboveZero(st, country_iso3, level - 1)

\* found_level after the loop: the first level with a file, -1 for None
RECURSIVE FoundLevel(_, _, _)
FoundLevel(st, country_iso3, level) ==
    IF level < 0 THEN -1
    ELSE IF PathExists(st, ShpPath(country_iso3, level)) THEN level
         ELSE FoundLevel(st, country_iso3, level - 1)

name_columns == <<"COUNTRY", "NAME_0", "NAME_1", "NAME_2", "NAME_3", "NAME_4", "NAME_5">>

\* gdf[gdf[col].str.lower() == area_name_lower]: a null value compares unequal
MatchRows(gdf, col, area_name_lower) ==
    WithRows(gdf, SelectSeq(gdf.rows,
                            LAMBDA row : row[col] # None /\ Lower(row[col]) = area_name_lower))

\* A scan that keeps going after a hit: the last present column with a match wins
RECURSIVE ScanNameColumnsLast(_, _, _)
ScanNameColumnsLast(gdf, cols, area_name_lower) ==
    IF cols = <<>> THEN [found |-> FALSE]
    ELSE LET col == Head(cols)
             later == ScanNameColumnsLast(gdf, Tail(cols), area_name_lower)
         IN  IF later.found THEN later
             ELSE IF col \in gdf.columns /\ MatchRows(gdf, col, area_name_lower).rows # <<>>
                  THEN [found |-> TRUE, gdf |-> MatchRows(gdf, col, area_name_lower)]
                  ELSE [found |-> FALSE]

\* The for loop over name_columns: the first present column with a non-empty filter
RECURSIVE ScanNameColumns(_, _, _)
ScanNameColumns(gdf, cols, area_name_lower) ==
    IF cols = <<>> THEN [found |-> FALSE]
    ELSE LET col == Head(cols)
         IN  IF col \in gdf.columns /\ MatchRows(gdf, col, area_name_lower).rows # <<>>
             THEN [found |-> TRUE, gdf |-> MatchRows(gdf, col, area_name_lower)]
             ELSE ScanNameColumns(gdf, Tail(cols), area_name_lower)

LoadFromShapefile(st, country_iso3_in, admin_level, area_name) ==
    LET country_iso3 == Upper(country_iso3_in)
        found_level == FoundLevel(st, country_iso3, admin_level)
        probes == [k \in 1..Len(ProbedPaths(st, country_iso3, admin_level)) |->
                     [op |-> "exists", path |-> ProbedPaths(st, country_iso3, admin_level)[k]]]
    IN  IF found_level = -1
        THEN Raise("FileNotFoundError: No shapefile found", probes)
        ELSE LET path == ShpPath(country_iso3, found_level)
                 gdf == st.shp[path]
                 io == Append(probes, [op |-> "read_file", path |-> path])
             IN  IF Truthy(area_name)
                 THEN LET scan == ScanNameColumns(gdf, name_columns, Lower(area_name))
                      IN  IF scan.found THEN Return(scan.gdf, io)
                          ELSE Raise("ValueError: No data found", io)
                 ELSE Return(gdf, io)

----------------------------------------------------------------------------
(* resolve_group, country_to_iso3, load_from_geojson, get_data *)

group_aliases ==
    [k \in {"eu", "european union", "gcc", "gulf cooperation council", "saarc",
            "south asia", "na", "north america", "sa", "south america", "asia", "africa",
            "oceania", "world"} |->
        CASE k = "eu" -> "European Union"
          [] k = "european union" -> "European Union"
          [] k = "gcc" -> "GCC"
          [] k = "gulf cooperation council" -> "GCC"
          [] k = "saarc" -> "South Asia"
          [] k = "south asia" -> "South Asia"
          [] k = "na" -> "North America"
          [] k = "north america" -> "North America"
          [] k = "sa" -> "South America"
          [] k = "south america" -> "South America"
          [] k = "asia" -> "Asia"
          [] k = "africa" -> "Africa"
          [] k = "oceania" -> "Oceania"
          [] k = "world" -> "World"]

\* group_name.strip() is evaluated first: on None it raises AttributeError, before
\* groups.json is opened
ResolveGroup(st, group_name) ==
    IF group_name = None
    THEN [ok |-> FALSE,
          err |-> "AttributeError: 'NoneType' object has no attribute 'strip'",
          io |-> <<>>]
    ELSE LET group_name_clean == Lower(Strip(group_name))
             canonical_name == IF group_name_clean \in DOMAIN group_aliases
                               THEN group_aliases[group_name_clean]
                               ELSE group_name
         IN  [ok |-> TRUE,
              err |-> None,
              members |-> IF canonical_name \in DOMAIN st.groups
                          THEN st.groups[canonical_name] ELSE <<>>,
              io |-> <<[op |-> "open_groups", path |-> "./geodata/groups.json"]>>]

\* pycountry.countries.lookup(name).alpha_3: a case-insensitive lookup among the
\* names and codes of the countries the model knows
CountryToIso3(name) ==
    LET key == Lower(name)
    IN  CASE key \in {"france", "fra"} -> [ok |-> TRUE, iso |-> "FRA"]
          [] key \in {"united arab emirates", "are"} -> [ok |-> TRUE, iso |-> "ARE"]
          [] OTHER -> [ok |-> FALSE, err |-> "ValueError: Could not resolve country name"]

country_columns == <<"name", "country", "admin", "NAME", "CNTRY_NAME">>

RECURSIVE FirstPresent(_, _)
FirstPresent(cols, columns) ==
    IF cols = <<>> THEN None
    ELSE IF Head(cols) \in columns THEN Head(cols) ELSE FirstPresent(Tail(cols), columns)

SeqToSet(sq) == {sq[n] : n \in 1..Len(sq)}

\* A loader without the geometry-type filter
LoadFromGeojsonAnyGeometry(st, file_path, countries) ==
    LET io == <<[op |-> "read_geojson", path |-> file_path]>>
        country_col == FirstPresent(country_columns, st.level1.columns)
    IN  IF country_col = None
        THEN Raise("ValueError: No country name column found", io)
        ELSE Return(WithRows(st.level1,
                             SelectSeq(st.level1.rows,
                                 LAMBDA row : row[country_col] \in SeqToSet(countries))),
                    io)

LoadFromGeojson(st, file_path, countries) ==
    LET io == <<[op |-> "read_geojson", path |-> file_path]>>
        polygons == WithRows(st.level1,
                             SelectSeq(st.level1.rows,
                                 LAMBDA row : row["geometry"] \in {"Polygon", "MultiPolygon"}))
        country_col == FirstPresent(country_columns, polygons.columns)
    IN  IF country_col = None
        THEN Raise("ValueError: No country name column found", io)
        ELSE Return(WithRows(polygons,
                             SelectSeq(polygons.rows,
                                 LAMBDA row : row[country_col] \in SeqToSet(countries))),
                    io)

\* The general levels with the district level left out
general_admin_levels_without_9 == {4, 6, 8}

general_admin_levels == {4, 6, 8, 9}

\* Branch 1: the members of the group, from the global dataset
GroupBranch(st, parsed) ==
    LET rg == ResolveGroup(st, parsed.group_name)
    IN  IF ~rg.ok THEN rg
        ELSE LET r == LoadFromGeojson(st, "./geodata/level1.json", rg.members)
             IN  [r EXCEPT !.io = rg.io \o r.io]

\* Branch 2: the country polygons of area_name, from the global dataset
CountryBranch(st, parsed) ==
    LoadFromGeojson(st, "./geodata/level1.json", <<parsed.area_name>>)

\* Branch 3: the per-country files of parent_country or area_name
ShapefileBranch(st, parsed) ==
    LET name == IF Truthy(parsed.parent_country) THEN parsed.parent_country
                ELSE parsed.area_name
        res == CountryToIso3(name)
        io == <<[op |-> "country_to_iso3", name |-> name]>>
    IN  IF ~res.ok
        THEN Raise("ValueError: Failed to resolve country for shapefile lookup", io)
        ELSE LET r == IF /\ parsed.admin_level \in general_admin_levels
                         /\ \/ parsed.area_name = None
                            \/ /\ Truthy(parsed.parent_country)
                               /\ Lower(parsed.area_name) = Lower(parsed.parent_country)
                      THEN LoadFromShapefile(st, res.iso, parsed.admin_level, None)
                      ELSE LoadFromShapefile(st, res.iso, parsed.admin_level,
                                             parsed.area_name)
             IN  [r EXCEPT !.io = io \o r.io]

\* A get_data whose admin_level == 2 test comes before the group test
GetDataLevelFirst(st, parsed) ==
    IF parsed.admin_level = 2 THEN CountryBranch(st, parsed)
    ELSE IF parsed.is_group_query THEN GroupBranch(st, parsed)
    ELSE ShapefileBranch(st, parsed)

GetData(st, parsed) ==
    IF parsed.is_group_query THEN GroupBranch(st, parsed)
    ELSE IF parsed.admin_level = 2 THEN CountryBranch(st, parsed)
    ELSE ShapefileBranch(st, parsed)

----------------------------------------------------------------------------
(* select_name_field *)

admin_name_map ==
    [level \in {9, 8, 7, 6, 4, 2} |->
        CASE level = 9 -> <<"NAME_4", "NAME_3", "name">>
          [] level = 8 -> <<"NAME_4", "NAME_3", "name">>
          [] level = 7 -> <<"NAME_3", "NAME_2", "NAME_1", "name">>
          [] level = 6 -> <<"NAME_2", "NAME_1", "name">>
          [] level = 4 -> <<"NAME_1", "COUNTRY", "name">>
          [] level = 2 -> <<"COUNTRY", "NAME", "name">>]

default_candidates ==
    <<"NAME_4", "NAME_3", "NAME_2", "NAME_1", "COUNTRY", "NAME", "name", "admin", "label">>

\* admin_name_map.get(admin_level, default_candidates)
Candidates(admin_level) ==
    IF admin_level \in DOMAIN admin_name_map THEN admin_name_map[admin_level]
    ELSE default_candidates

\* astype(str) of a non-null string value
Str(v) == v

\* The test without the strip: gdf[col].dropna().astype(str).any()
HasNameValuesUnstripped(gdf, col) ==
    \E n \in 1..Len(gdf.rows) : gdf.rows[n][col] # None /\ Str(gdf.rows[n][col]) # ""

\* gdf[col].dropna().astype(str).str.strip().any(): nulls are dropped first, and a
\* string is truthy when it is not empty
HasNameValues(gdf, col) ==
    \E n \in 1..Len(gdf.rows) :
        gdf.rows[n][col] # None /\ Strip(Str(gdf.rows[n][col])) # ""

RECURSIVE FirstNameField(_, _)
FirstNameField(gdf, candidates) ==
    IF candidates = <<>> THEN None
    ELSE IF Head(candidates) \in gdf.columns /\ HasNameValues(gdf, Head(candidates))
         THEN Head(candidates)
         ELSE FirstNameField(gdf, Tail(candidates))

SelectNameField(gdf, admin_level) ==
    LET col == FirstNameField(gdf, Candidates(admin_level))
    IN  IF col # None THEN [ok |-> TRUE, err |-> None, col |-> col]
        ELSE [ok |-> FALSE, err |-> "ValueError: No suitable name field found"]

----------------------------------------------------------------------------
(* extract_geometry_with_name, __geo_interface__, combine_geojsons *)

\* gdf[[name_column, "geometry"]] without the rename
ExtractGeometryUnrenamed(gdf, name_column) ==
    IF name_column \notin gdf.columns
    THEN Raise("ValueError: Column not found in DataFrame", <<>>)
    ELSE Return([columns |-> {name_column},
                 rows |-> [n \in 1..Len(gdf.rows) |->
                             [c \in {name_column, "geometry"} |-> gdf.rows[n][c]]]],
                <<>>)

\* gdf[[name_column, "geometry"]].rename(columns={name_column: "name"}).copy()
ExtractGeometryWithName(gdf, name_column) ==
    IF name_column \notin gdf.columns
    THEN Raise("ValueError: Column not found in DataFrame", <<>>)
    ELSE Return([columns |-> {"name"},
                 rows |-> [n \in 1..Len(gdf.rows) |->
                             [c \in {"name", "geometry"} |->
                                IF c = "name" THEN gdf.rows[n][name_column]
                                ELSE gdf.rows[n]["geometry"]]]],
                <<>>)

\* new_gdf.__geo_interface__: one feature per row, the attribute columns as its
\* properties.  geopandas tags the mapping FeatureCollection; `tag` stands for
\* what the library object answers.
GeoInterface(gdf, tag) ==
    [type |-> tag,
     features |-> [n \in 1..Len(gdf.rows) |->
                     [type |-> "Feature",
                      properties |-> [c \in gdf.columns |-> gdf.rows[n][c]],
                      geometry |-> gdf.rows[n]["geometry"]]]]

\* dict.get(key, default)
Get(d, key, default) == IF key \in DOMAIN d THEN d[key] ELSE default

\* A loop that skips an input of an unsupported type instead of raising
RECURSIVE CombineSkipping(_, _)
CombineSkipping(geojson_list, all_features) ==
    IF geojson_list = <<>>
    THEN [ok |-> TRUE, err |-> None,
          value |-> [type |-> "FeatureCollection", features |-> all_features]]
    ELSE LET gj == Head(geojson_list)
         IN  IF Get(gj, "type", None) = "FeatureCollection"
             THEN CombineSkipping(Tail(geojson_list), all_features \o Get(gj, "features", <<>>))
             ELSE IF Get(gj, "type", None) = "Feature"
             THEN CombineSkipping(Tail(geojson_list), Append(all_features, gj))
             ELSE CombineSkipping(Tail(geojson_list), all_features)

\* A loop that appends a collection as one element: append in place of extend
RECURSIVE CombineAppending(_, _)
CombineAppending(geojson_list, all_features) ==
    IF geojson_list = <<>>
    THEN [ok |-> TRUE, err |-> None,
          value |-> [type |-> "FeatureCollection", features |-> all_features]]
    ELSE LET gj == Head(geojson_list)
         IN  IF Get(gj, "type", None) \in {"FeatureCollection", "Feature"}
             THEN CombineAppending(Tail(geojson_list), Append(all_features, gj))
             ELSE [ok |-> FALSE, err |-> "ValueError: Unsupported GeoJSON type"]

\* The for loop of combine_geojsons from the inputs left and the features so far
RECURSIVE CombineFrom(_, _)
CombineFrom(geojson_list, all_features) ==
    IF geojson_list = <<>>
    THEN [ok |-> TRUE, err |-> None,
          value |-> [type |-> "FeatureCollection", features |-> all_features]]
    ELSE LET gj == Head(geojson_list)
         IN  IF Get(gj, "type", None) = "FeatureCollection"
             THEN CombineFrom(Tail(geojson_list), all_features \o Get(gj, "features", <<>>))
             ELSE IF Get(gj, "type", None) = "Feature"
             THEN CombineFrom(Tail(geojson_list), Append(all_features, gj))
             ELSE [ok |-> FALSE, err |-> "ValueError: Unsupported GeoJSON type"]

CombineSkippingAll(geojson_list) == CombineSkipping(geojson_list, <<>>)

CombineGeojsons(geojson_list) == CombineFrom(geojson_list, <<>>)

\* The body of the try block of one loop item, up to the geojson it appends
ProcessItem(st, q, tag) ==
    LET data == GetData(st, q)
    IN  IF ~data.ok THEN [ok |-> FALSE, err |-> data.err]
        ELSE LET field == SelectNameField(data.gdf, q.admin_level)
             IN  IF ~field.ok THEN [ok |-> FALSE, err |-> field.err]
                 ELSE LET new_gdf == ExtractGeometryWithName(data.gdf, field.col)
                      IN  IF ~new_gdf.ok THEN [ok |-> FALSE, err |-> new_gdf.err]
                          ELSE [ok |-> TRUE, err |-> None,
                                geojson_dict |-> GeoInterface(new_gdf.gdf, tag)]

----------------------------------------------------------------------------
(* Generated datasets *)

\* All rows over the columns `cols` with attribute values in `values`
RowsOver(cols, values, geoms) ==
    {[c \in cols \cup {"geometry"} |-> IF c = "geometry" THEN g ELSE f[c]] :
        f \in [cols -> values], g \in geoms}

SeqsUpTo(S, n) == UNION {[1..k -> S] : k \in 0..n}

DatasetsOver(colsets, values, geoms) ==
    UNION {{[columns |-> cols, rows |-> rows] :
              rows \in SeqsUpTo(RowsOver(cols, values, geoms), MaxRows)} : cols \in colsets}

\* The columns a per-country file of admin level k holds: COUNTRY, NAME_1 .. NAME_k
LevelColumns(k) ==
    {"COUNTRY"} \cup (IF k >= 1 THEN {"NAME_1"} ELSE {}) \cup (IF k >= 2 THEN {"NAME_2"} ELSE {})

\* The file of level k cut from the dataset d
LevelFile(d, k) ==
    LET cols == d.columns \cap LevelColumns(k)
    IN  [columns |-> cols,
         rows |-> [n \in 1..Len(d.rows) |->
                     [c \in cols \cup {"geometry"} |-> d.rows[n][c]]]]

\* groups.json
GroupsJson ==
    [g \in {"GCC", "European Union", "Nordic"} |->
        CASE g = "GCC" -> <<"United Arab Emirates", "Qatar">>
          [] g = "European Union" -> <<"France">>
          [] g = "Nordic" -> <<"Qatar">>]

\* The rows of level1.json: country polygons, a label point and a null geometry
Level1Rows ==
    <<[name |-> "France", admin |-> "France", NAME |-> "FRANCE", ISO_A3 |-> "FRA",
       geometry |-> "MultiPolygon"],
      [name |-> "United Arab Emirates", admin |-> "United Arab Emirates", NAME |-> "UAE",
       ISO_A3 |-> "ARE", geometry |-> "Polygon"],
      [name |-> "Qatar", admin |-> "Qatar", NAME |-> "Qatar", ISO_A3 |-> "QAT",
       geometry |-> "Polygon"],
      [name |-> "France", admin |-> "France", NAME |-> "France", ISO_A3 |-> "FRA",
       geometry |-> "Point"],
      [name |-> "Qatar", admin |-> "Qatar", NAME |-> "Qatar", ISO_A3 |-> "QAT",
       geometry |-> None]>>

\* level1.json with the attribute columns `cols`
Level1File(cols) ==
    [columns |-> cols,
     rows |-> [n \in 1..Len(Level1Rows) |->
                 [c \in cols \cup {"geometry"} |-> Level1Rows[n][c]]]]

Level1Files ==
    {Level1File(cols) : cols \in {{"name", "ISO_A3"}, {"admin", "NAME", "ISO_A3"},
                                  {"NAME", "ISO_A3"}, {"ISO_A3"}}}

\* The subdivisions of ARE; the geometry of the last row is g
ShpBase(g) ==
    [columns |-> {"COUNTRY", "NAME_1", "NAME_2"},
     rows |-> <<[COUNTRY |-> "United Arab Emirates", NAME_1 |-> "Dubai", NAME_2 |-> "Deira",
                 geometry |-> "Polygon"],
                [COUNTRY |-> "United Arab Emirates", NAME_1 |-> "Abu Dhabi",
                 NAME_2 |-> "Al Ain", geometry |-> "MultiPolygon"],
                [COUNTRY |-> "United Arab Emirates", NAME_1 |-> "Dubai", NAME_2 |-> None,
                 geometry |-> g]>>]

\* ./geodata/countries with the files of ARE for the admin levels `levels`, cut from d
ShpFiles(levels, d) == [p \in {ShpPath("ARE", k) : k \in levels} |-> LevelFile(d, p.level)]

IdleH ==
    /\ pc = "off" /\ queries = <<>> /\ i = 0 /\ geoJson_List = <<>> /\ origin = <<>>
    /\ warnings = <<>> /\ topError = <<>> /\ combined = [set |-> FALSE] /\ shown = FALSE

\* The loader is a separate script: its session does not exist
NoProcess == [state |-> "none", lines |-> 0]
NoRerun == [pending |-> FALSE, button |-> FALSE, selected_file |-> None, import_mode |-> None]
NoScript == [pc |-> "off", file_path |-> None, mode |-> None, waits |-> 0]

IdleL ==
    /\ importing = FALSE /\ logs = <<>> /\ history = <<>> /\ script = NoScript
    /\ process = NoProcess /\ rerun = NoRerun /\ now = 0 /\ exits = <<>>

----------------------------------------------------------------------------
(* Harness of load_from_shapefile: one country directory, any set of levels *)

ShpDatasets == DatasetsOver(SUBSET {"COUNTRY", "NAME_1"}, {None, "Dubai", "Abu Dhabi"}, {"Polygon"})

LoadAreaNames == {None, "", "dubai", "Abu Dhabi"}

InitLoad ==
    /\ \E levels \in SUBSET (0..MaxLevel), d \in ShpDatasets :
         store = [groups |-> GroupsJson, level1 |-> Level1File({"name", "ISO_A3"}),
                  shp |-> ShpFiles(levels, d)]
    /\ \E iso \in {"ARE", "are"}, L \in 0..(MaxLevel + 1), a \in LoadAreaNames :
         call = [fn |-> "load_from_shapefile", country_iso3 |-> iso, admin_level |-> L,
                 area_name |-> a]
    /\ ret = [done |-> FALSE]
    /\ IdleH
    /\ IdleL

CallLoad ==
    /\ call.fn = "load_from_shapefile"
    /\ ~ret.done
    /\ ret' = [done |-> TRUE,
               out |-> LoadFromShapefile(store, call.country_iso3, call.admin_level,
                                         call.area_name)]
    /\ UNCHANGED <<store, call, hvars, lvars>>

NextLoad == CallLoad

SpecLoad == InitLoad /\ [][NextLoad]_vars

----------------------------------------------------------------------------
(* Harness of select_name_field: datasets with up to two attribute columns *)

SelectColumns ==
    {"NAME_4", "NAME_3", "NAME_2", "NAME_1", "COUNTRY", "NAME", "name", "admin", "label",
     "GID_0"}

SelectDatasets ==
    DatasetsOver({{a, b} : a, b \in SelectColumns} \cup {{}}, {None, " ", "Dubai"},
                 {"Polygon"})

InitSelect ==
    /\ store = [groups |-> GroupsJson, level1 |-> Level1File({"name", "ISO_A3"}),
                shp |-> ShpFiles({}, ShpBase("Polygon"))]
    /\ \E gdf \in SelectDatasets, L \in 0..9 :
         call = [fn |-> "select_name_field", gdf |-> gdf, admin_level |-> L]
    /\ ret = [done |-> FALSE]
    /\ IdleH
    /\ IdleL

CallSelect ==
    /\ call.fn = "select_name_field"
    /\ ~ret.done
    /\ ret' = [done |-> TRUE, out |-> SelectNameField(call.gdf, call.admin_level)]
    /\ UNCHANGED <<store, call, hvars, lvars>>

NextSelect == CallSelect

SpecSelect == InitSelect /\ [][NextSelect]_vars

----------------------------------------------------------------------------
(* Harness of get_data and resolve_group *)

AreaNames == {"", "Dubai", "dubai", "United Arab Emirates", "ARE", "France", "Narnia"}
QueryLevels == {2, 4, 5, 6, 9}
GroupNames == {None, "", "gcc", " GCC ", " EU ", "Mars", "Nordic", "nordic"}
ParentCountries == {None, "", "United Arab Emirates", "united arab emirates", "are", "Narnia"}

\* GeoQueryItem: area_name is a required str, group_name and parent_country are Optional
GeoQueryItems ==
    [area_name : AreaNames, admin_level : QueryLevels, is_group_query : BOOLEAN,
     group_name : GroupNames, parent_country : ParentCountries]

InitGetData ==
    /\ \E level1 \in Level1Files, levels \in SUBSET (0..MaxLevel) :
         store = [groups |-> GroupsJson, level1 |-> level1,
                  shp |-> ShpFiles(levels, ShpBase("Polygon"))]
    /\ \/ \E q \in GeoQueryItems : call = [fn |-> "get_data", parsed |-> q]
       \/ \E g \in GroupNames : call = [fn |-> "resolve_group", group_name |-> g]
    /\ ret = [done |-> FALSE]
    /\ IdleH
    /\ IdleL

CallGetData ==
    /\ call.fn = "get_data"
    /\ ~ret.done
    /\ ret' = [done |-> TRUE, out |-> GetData(store, call.parsed)]
    /\ UNCHANGED <<store, call, hvars, lvars>>

CallResolveGroup ==
    /\ call.fn = "resolve_group"
    /\ ~ret.done
    /\ ret' = [done |-> TRUE, out |-> ResolveGroup(store, call.group_name)]
    /\ UNCHANGED <<store, call, hvars, lvars>>

NextGetData == CallGetData \/ CallResolveGroup

SpecGetData == InitGetData /\ [][NextGetData]_vars

----------------------------------------------------------------------------
(* Harness of combine_geojsons *)

Feature(name) ==
    [type |-> "Feature", properties |-> [name |-> name], geometry |-> "Polygon"]

GeoJsonInputs ==
    {[type |-> "FeatureCollection", features |-> fs] :
        fs \in SeqsUpTo({Feature("Dubai"), Feature("Deira")}, MaxRows)}
    \cup {[type |-> "FeatureCollection"]}
    \cup {Feature("Dubai"), Feature("Qatar")}
    \cup {[type |-> "GeometryCollection", geometries |-> <<>>],
          [type |-> "Polygon", coordinates |-> <<>>],
          [features |-> <<Feature("Dubai")>>]}

InitCombine ==
    /\ store = [groups |-> GroupsJson, level1 |-> Level1File({"name", "ISO_A3"}),
                shp |-> ShpFiles({}, ShpBase("Polygon"))]
    /\ \E l \in SeqsUpTo(GeoJsonInputs, MaxItems) :
         call = [fn |-> "combine_geojsons", geojson_list |-> l]
    /\ ret = [done |-> FALSE]
    /\ IdleH
    /\ IdleL

CallCombine ==
    /\ call.fn = "combine_geojsons"
    /\ ~ret.done
    /\ ret' = [done |-> TRUE, out |-> CombineGeojsons(call.geojson_list)]
    /\ UNCHANGED <<store, call, hvars, lvars>>

NextCombine == CallCombine

SpecCombine == InitCombine /\ [][NextCombine]_vars

----------------------------------------------------------------------------
(* The Run Query handler *)

\* The area requests the parser may hand to the loop: every branch of get_data
\* and every kind of per-item failure
SampleQueries ==
    {[area_name |-> "GCC countries", admin_level |-> 2, is_group_query |-> TRUE,
      group_name |-> " GCC ", parent_country |-> None],
     [area_name |-> "EU", admin_level |-> 4, is_group_query |-> TRUE,
      group_name |-> None, parent_country |-> None],
     [area_name |-> "France", admin_level |-> 2, is_group_query |-> FALSE,
      group_name |-> None, parent_country |-> None],
     [area_name |-> "dubai", admin_level |-> 6, is_group_query |-> FALSE,
      group_name |-> None, parent_country |-> "United Arab Emirates"],
     [area_name |-> "United Arab Emirates", admin_level |-> 4, is_group_query |-> FALSE,
      group_name |-> None, parent_country |-> None],
     [area_name |-> "Abu Dhabi", admin_level |-> 9, is_group_query |-> FALSE,
      group_name |-> None, parent_country |-> "are"]}

\* What __geo_interface__ may be tagged: FeatureCollection from geopandas, and
\* one tag standing for any other answer
GeoInterfaceTags == {"FeatureCollection", "GeometryCollection"}

Init ==
    /\ \E levels \in {{}, 0..MaxLevel}, g \in {"Polygon", "Point", None} :
         store = [groups |-> GroupsJson, level1 |-> Level1File({"admin", "NAME", "ISO_A3"}),
                  shp |-> ShpFiles(levels, ShpBase(g))]
    /\ call = [fn |-> "none"]
    /\ ret = [done |-> FALSE]
    /\ pc = "idle" /\ queries = <<>> /\ i = 0 /\ geoJson_List = <<>> /\ origin = <<>>
    /\ warnings = <<>> /\ topError = <<>> /\ combined = [set |-> FALSE] /\ shown = FALSE
    /\ IdleL

\* The button is clicked: chain.invoke and parser.parse run, and either raise
\* (the outer except reports it) or yield the list of area requests
RunQuery ==
    /\ pc = "idle"
    /\ \/ /\ pc' = "failed"
          /\ topError' = Append(topError, "OutputParserException")
          /\ UNCHANGED <<queries, i, geoJson_List, origin>>
       \/ /\ \E qs \in SeqsUpTo(SampleQueries, MaxQueries) : queries' = qs
          /\ pc' = "loop"
          /\ i' = 1
          /\ geoJson_List' = <<>>
          /\ origin' = <<>>
          /\ UNCHANGED topError
    /\ UNCHANGED <<store, fvars, lvars, warnings, combined, shown>>

\* A loop whose first failing item ends the loop
QueryLoopItemAborting ==
    /\ pc = "loop"
    /\ i <= Len(queries)
    /\ \E tag \in GeoInterfaceTags :
         LET r == ProcessItem(store, queries[i], tag)
         IN  IF r.ok
             THEN /\ geoJson_List' = Append(geoJson_List, r.geojson_dict)
                  /\ origin' = Append(origin, i)
                  /\ i' = i + 1
                  /\ UNCHANGED warnings
             ELSE /\ warnings' = Append(warnings, [item |-> i,
                                                   area_name |-> queries[i].area_name,
                                                   err |-> r.err])
                  /\ i' = Len(queries) + 1
                  /\ UNCHANGED <<geoJson_List, origin>>
    /\ UNCHANGED <<store, fvars, lvars, pc, queries, topError, combined, shown>>

\* One item of `for q in parsed.queries`: the try block and its except
QueryLoopItem ==
    /\ pc = "loop"
    /\ i <= Len(queries)
    /\ \E tag \in GeoInterfaceTags :
         LET r == ProcessItem(store, queries[i], tag)
         IN  IF r.ok
             THEN /\ geoJson_List' = Append(geoJson_List, r.geojson_dict)
                  /\ origin' = Append(origin, i)
                  /\ UNCHANGED warnings
             ELSE /\ warnings' = Append(warnings, [item |-> i,
                                                   area_name |-> queries[i].area_name,
                                                   err |-> r.err])
                  /\ UNCHANGED <<geoJson_List, origin>>
    /\ i' = i + 1
    /\ UNCHANGED <<store, fvars, lvars, pc, queries, topError, combined, shown>>

\* combined = combine_geojsons(geoJson_List) after the loop; its exception is
\* caught by the outer except
Aggregate ==
    /\ pc = "loop"
    /\ i > Len(queries)
    /\ LET r == CombineGeojsons(geoJson_List)
       IN  IF r.ok
           THEN /\ combined' = [set |-> TRUE, value |-> r.value]
                /\ pc' = "render"
                /\ UNCHANGED topError
           ELSE /\ topError' = Append(topError, r.err)
                /\ pc' = "failed"
                /\ UNCHANGED combined
    /\ UNCHANGED <<store, fvars, lvars, queries, i, geoJson_List, origin, warnings, shown>>

\* create_map, save_map_html, the read of the file and its display; any of them
\* may raise, which the outer except reports
Render ==
    /\ pc = "render"
    /\ \/ /\ shown' = TRUE
          /\ pc' = "done"
          /\ UNCHANGED topError
       \/ /\ topError' = Append(topError, "RenderError")
          /\ pc' = "failed"
          /\ UNCHANGED shown
    /\ UNCHANGED <<store, fvars, lvars, queries, i, geoJson_List, origin, warnings, combined>>

\* The script ends; the next interaction reruns it from the top
Rerun ==
    /\ pc \in {"done", "failed"}
    /\ pc' = "idle" /\ queries' = <<>> /\ i' = 0 /\ geoJson_List' = <<>> /\ origin' = <<>>
    /\ warnings' = <<>> /\ topError' = <<>> /\ combined' = [set |-> FALSE]
    /\ shown' = FALSE
    /\ UNCHANGED <<store, fvars, lvars>>

Next == RunQuery \/ QueryLoopItem \/ Aggregate \/ Render \/ Rerun

Spec == Init /\ [][Next]_vars

----------------------------------------------------------------------------
(* Properties of load_from_shapefile *)

Max(S) == CHOOSE m \in S : \A k \in S : k <= m

\* The admin levels at or below L that have a file in the country directory
LevelsOnDisk(L) == {p.level : p \in {q \in DOMAIN store.shp : q.level <= L /\ q.level >= 0}}

\* The levels of the exists() probes and of the read_file() calls of an outcome, in order
ProbedLevels(out) ==
    LET probes == SelectSeq(out.io, LAMBDA e : e.op = "exists")
    IN  [k \in 1..Len(probes) |-> probes[k].path.level]
ReadLevels(out) ==
    LET reads == SelectSeq(out.io, LAMBDA e : e.op = "read_file")
    IN  [k \in 1..Len(reads) |-> reads[k].path.level]

\* C1: load_from_shapefile probes the levels L, L-1, ... and stops at the first
\* one that has a file; it reads the file of the highest existing level k <= L,
\* and it raises the dataset-not-found error exactly when no level from L down
\* to 0 has a file (then every level L..0 was probed and nothing was read).
C1_FallbackDown ==
    (call.fn = "load_from_shapefile" /\ ret.done) =>
        LET L == call.admin_level
            have == LevelsOnDisk(L)
            out == ret.out
            notFound == ~out.ok /\ out.err = "FileNotFoundError: No shapefile found"
        IN  /\ notFound <=> have = {}
            /\ have = {} =>
                  /\ ProbedLevels(out) = [k \in 1..(L + 1) |-> L + 1 - k]
                  /\ ReadLevels(out) = <<>>
            /\ have # {} =>
                  /\ ProbedLevels(out) = [k \in 1..(L - Max(have) + 1) |-> L + 1 - k]
                  /\ ReadLevels(out) = <<Max(have)>>
                  /\ (~Truthy(call.area_name)) =>
                        out.ok /\ out.gdf = store.shp[ShpPath("ARE", Max(have))]

\* A fallback happened: the requested level has no file, a lower one has, and
\* its dataset was loaded
C1_Witness ==
    /\ call.fn = "load_from_shapefile" /\ ret.done /\ ret.out.ok
    /\ call.admin_level = MaxLevel + 1
    /\ LevelsOnDisk(call.admin_level) = {0, 1}
    /\ ReadLevels(ret.out) = <<1>>

\* The rows of gdf whose value in column c equals the area name ignoring case
RowsMatching(gdf, c, area_name) ==
    SelectSeq(gdf.rows, LAMBDA row : row[c] # None /\ Lower(row[c]) = Lower(area_name))

\* The positions in the candidate list of the present columns with a matching row
MatchingCandidates(gdf, area_name) ==
    {n \in 1..7 :
        LET c == <<"COUNTRY", "NAME_0", "NAME_1", "NAME_2", "NAME_3", "NAME_4", "NAME_5">>[n]
        IN  c \in gdf.columns /\ RowsMatching(gdf, c, area_name) # <<>>}

Min(S) == CHOOSE m \in S : \A k \in S : m <= k

\* C8: given an area name, load_from_shapefile returns exactly the rows, of the
\* dataset of the level found by the fallback search, that match in the first
\* present candidate column having a match (COUNTRY, NAME_0, NAME_1, ... in this
\* order); it raises the area-not-found error exactly when no present candidate
\* column has a matching row.
C8_FirstMatchingColumn ==
    (call.fn = "load_from_shapefile" /\ ret.done /\ Truthy(call.area_name)
       /\ LevelsOnDisk(call.admin_level) # {}) =>
        LET gdf == store.shp[ShpPath("ARE", Max(LevelsOnDisk(call.admin_level)))]
            cands == MatchingCandidates(gdf, call.area_name)
            out == ret.out
        IN  /\ (~out.ok /\ out.err = "ValueError: No data found") <=> cands = {}
            /\ cands # {} =>
                  /\ out.ok
                  /\ out.gdf.columns = gdf.columns
                  /\ out.gdf.rows =
                        RowsMatching(gdf,
                            <<"COUNTRY", "NAME_0", "NAME_1", "NAME_2", "NAME_3", "NAME_4",
                              "NAME_5">>[Min(cands)],
                            call.area_name)

\* Two candidate columns match, in different rows, and only the rows of the
\* first one came back; the match is case-insensitive
C8_Witness ==
    /\ call.fn = "load_from_shapefile" /\ ret.done /\ ret.out.ok
    /\ call.area_name = "dubai"
    /\ LevelsOnDisk(call.admin_level) # {}
    /\ LET gdf == store.shp[ShpPath("ARE", Max(LevelsOnDisk(call.admin_level)))]
       IN  /\ MatchingCandidates(gdf, call.area_name) = {1, 3}
           /\ Len(gdf.rows) = 2
           /\ RowsMatching(gdf, "COUNTRY", "dubai") # RowsMatching(gdf, "NAME_1", "dubai")
           /\ Len(ret.out.gdf.rows) = 1

----------------------------------------------------------------------------
(* Properties of select_name_field *)

\* The priority list of each admin level, as documented
DocumentedPriority(level) ==
    CASE level \in {8, 9} -> <<"NAME_4", "NAME_3", "name">>
      [] level = 7 -> <<"NAME_3", "NAME_2", "NAME_1", "name">>
      [] level = 6 -> <<"NAME_2", "NAME_1", "name">>
      [] level = 4 -> <<"NAME_1", "COUNTRY", "name">>
      [] level = 2 -> <<"COUNTRY", "NAME", "name">>
      [] OTHER -> <<"NAME_4", "NAME_3", "NAME_2", "NAME_1", "COUNTRY", "NAME", "name",
                    "admin", "label">>

\* A column that exists and has a (non-null) value that is not blank
Usable(gdf, c) ==
    /\ c \in gdf.columns
    /\ \E n \in 1..Len(gdf.rows) : gdf.rows[n][c] \notin {None, "", " ", "  "}

UsablePositions(gdf, level) ==
    {n \in 1..Len(DocumentedPriority(level)) : Usable(gdf, DocumentedPriority(level)[n])}

\* C9: select_name_field returns the first column of the level's priority list
\* that exists in the dataset and has a value that is non-empty after stripping;
\* it raises the no-name-field error exactly when no candidate qualifies, so for
\* every dataset with zero rows.
C9_FirstUsableColumn ==
    (call.fn = "select_name_field" /\ ret.done) =>
        LET usable == UsablePositions(call.gdf, call.admin_level)
            out == ret.out
        IN  /\ (~out.ok /\ out.err = "ValueError: No suitable name field found")
                  <=> usable = {}
            /\ usable # {} =>
                  out.ok /\ out.col = DocumentedPriority(call.admin_level)[Min(usable)]
            /\ call.gdf.rows = <<>> => ~out.ok

\* Level 9, NAME_3 present but blank or null in every row, "name" filled: "name"
C9_Witness ==
    /\ call.fn = "select_name_field" /\ ret.done
    /\ call.admin_level = 9
    /\ call.gdf.columns = {"NAME_3", "name"}
    /\ Len(call.gdf.rows) = 2
    /\ call.gdf.rows[1]["NAME_3"] = " " /\ call.gdf.rows[2]["NAME_3"] = None
    /\ ret.out.ok /\ ret.out.col = "name"

----------------------------------------------------------------------------
(* Properties of get_data and resolve_group *)

IsPolygonal(row) == row["geometry"] \in {"Polygon", "MultiPolygon"}

\* The positions, in the documented list of country-name columns, of those present
CountryColumnPositions(gdf) ==
    {n \in 1..5 : <<"name", "country", "admin", "NAME", "CNTRY_NAME">>[n] \in gdf.columns}

\* out is the global dataset filtered to the polygonal rows whose country name is
\* in `names` (or the no-name-column error when the dataset has no such column)
IsGlobalFilteredTo(out, names) ==
    LET g == store.level1
        pos == CountryColumnPositions(g)
    IN  IF pos = {}
        THEN ~out.ok /\ out.err = "ValueError: No country name column found"
        ELSE /\ out.ok
             /\ out.gdf.columns = g.columns
             /\ out.gdf.rows =
                   SelectSeq(g.rows,
                       LAMBDA row :
                           /\ IsPolygonal(row)
                           /\ row[<<"name", "country", "admin", "NAME", "CNTRY_NAME">>[Min(pos)]]
                                 \in names)

\* The calls of an outcome that resolve a country code or touch the per-country files
CountryCalls(out) ==
    SelectSeq(out.io, LAMBDA e : e.op \in {"country_to_iso3", "exists", "read_file"})

\* C6: get_data chooses its branch in strict priority order.  A group query is
\* answered from the global dataset filtered to the resolved group members (or
\* fails as the group resolution fails) whatever admin_level, area_name and
\* parent_country are; otherwise admin_level 2 is answered from the global
\* dataset filtered to area_name; in both cases no country code is resolved and
\* no per-country file is probed.  Only other queries resolve parent_country or
\* area_name to a country code first and then search the per-country files.
C6_BranchPriority ==
    (call.fn = "get_data" /\ ret.done) =>
        LET q == call.parsed
            out == ret.out
        IN  /\ q.is_group_query =>
                  /\ CountryCalls(out) = <<>>
                  /\ LET rg == ResolveGroup(store, q.group_name)
                     IN  /\ rg.ok => IsGlobalFilteredTo(out, SeqToSet(rg.members))
                         /\ ~rg.ok => ~out.ok /\ out.err = rg.err
            /\ (~q.is_group_query /\ q.admin_level = 2) =>
                  /\ CountryCalls(out) = <<>>
                  /\ IsGlobalFilteredTo(out, {q.area_name})
            /\ (~q.is_group_query /\ q.admin_level # 2) =>
                  /\ out.io # <<>>
                  /\ out.io[1] = [op |-> "country_to_iso3",
                                  name |-> IF q.parent_country \in {None, ""}
                                           THEN q.area_name ELSE q.parent_country]
                  /\ \A n \in 1..Len(out.io) : out.io[n].op # "read_geojson"
                  /\ out.err # "ValueError: Failed to resolve country for shapefile lookup"
                       => Len(out.io) >= 2 /\ out.io[2].op = "exists"

\* A group query of admin level 2 with a known group, a country name as area
\* name and a parent country: the group members came back, not the area
C6_Witness ==
    /\ call.fn = "get_data" /\ ret.done /\ ret.out.ok
    /\ call.parsed.is_group_query /\ call.parsed.admin_level = 2
    /\ call.parsed.group_name = " GCC "
    /\ call.parsed.area_name = "France"
    /\ call.parsed.parent_country = "United Arab Emirates"
    /\ Len(ret.out.gdf.rows) = 2
    /\ ret.out.gdf.rows[1]["name"] = "United Arab Emirates"

\* A non-group query above the country level whose country resolved and for
\* which a per-country file was found
ShapefileLoaded ==
    /\ call.fn = "get_data" /\ ret.done
    /\ ~call.parsed.is_group_query /\ call.parsed.admin_level # 2
    /\ ret.out.err # "ValueError: Failed to resolve country for shapefile lookup"
    /\ ret.out.err # "FileNotFoundError: No shapefile found"

\* The dataset of the level found for the query
LoadedFile == store.shp[ShpPath("ARE", Max(LevelsOnDisk(call.parsed.admin_level)))]

IsWholeDataset(out) == out.ok /\ out.gdf = LoadedFile

\* out is the loaded dataset filtered by area_name: the rows of the first
\* candidate column with a match, the area-not-found error without any match
IsFilteredBy(out, area_name) ==
    LET cands == MatchingCandidates(LoadedFile, area_name)
    IN  IF cands = {}
        THEN ~out.ok /\ out.err = "ValueError: No data found"
        ELSE /\ out.ok
             /\ out.gdf.columns = LoadedFile.columns
             /\ out.gdf.rows = RowsMatching(LoadedFile, name_columns[Min(cands)], area_name)

\* The query asks for all subdivisions: a general level, and an area name that
\* is absent or equals the parent country ignoring case
AsksAllSubdivisions(q) ==
    /\ q.admin_level \in {4, 6, 8, 9}
    /\ \/ q.area_name \in {None, ""}
       \/ q.parent_country # None /\ Lower(q.area_name) = Lower(q.parent_country)

\* C7 as stated: the whole dataset for a general level with an absent area name
\* or one equal to the parent country, and rows filtered by area_name for every
\* other non-group query above the country level.
C7_Original ==
    ShapefileLoaded =>
        IF AsksAllSubdivisions(call.parsed) THEN IsWholeDataset(ret.out)
        ELSE IsFilteredBy(ret.out, call.parsed.area_name)

\* C7: for a non-group query of admin level 4, 6, 8 or 9 get_data returns the
\* whole loaded dataset when area_name is absent or equals parent_country
\* ignoring case; every other non-group query of a level other than 2 is
\* filtered by area_name when area_name is not empty, and gets the whole
\* dataset when area_name is empty, whatever its level.
C7_WholeOrFiltered ==
    ShapefileLoaded =>
        IF AsksAllSubdivisions(call.parsed) \/ call.parsed.area_name \in {None, ""}
        THEN IsWholeDataset(ret.out)
        ELSE IsFilteredBy(ret.out, call.parsed.area_name)

\* Level 9 with the country code as area name and as parent country in another
\* case: the whole dataset of the level found came back, although no row is
\* named so
C7_Witness ==
    /\ ShapefileLoaded
    /\ call.parsed.admin_level = 9
    /\ call.parsed.area_name = "ARE" /\ call.parsed.parent_country = "are"
    /\ MatchingCandidates(LoadedFile, "ARE") = {}
    /\ ret.out.ok /\ Len(ret.out.gdf.rows) = 3
    /\ LevelsOnDisk(9) = {0, 1}

\* The key looked up in the group dataset: the alias of the trimmed, lower-cased
\* name, or the name itself when it has no alias
GroupKey(group_name) ==
    IF Lower(Strip(group_name)) \in DOMAIN group_aliases
    THEN group_aliases[Lower(Strip(group_name))]
    ELSE group_name

\* C10: resolve_group yields an empty member list and no error for a missing
\* group_name and for every group_name that is not a key of the group dataset
\* after alias mapping, and get_data answers a group query without group_name
\* as a group without members.
C10_MissingGroupIsEmpty ==
    /\ (call.fn = "resolve_group" /\ ret.done) =>
          ((call.group_name = None \/ GroupKey(call.group_name) \notin DOMAIN store.groups)
             => ret.out.ok /\ ret.out.members = <<>>)
    /\ (call.fn = "get_data" /\ ret.done /\ call.parsed.is_group_query
           /\ call.parsed.group_name = None)
          => IsGlobalFilteredTo(ret.out, {})

----------------------------------------------------------------------------
(* Properties of combine_geojsons *)

TypeOf(gj) == IF "type" \in DOMAIN gj THEN gj["type"] ELSE None

\* The features an input contributes: a collection's features, a bare feature itself
Contribution(gj) ==
    IF TypeOf(gj) = "Feature" THEN <<gj>>
    ELSE IF "features" \in DOMAIN gj THEN gj["features"] ELSE <<>>

RECURSIVE Concatenation(_)
Concatenation(l) == IF l = <<>> THEN <<>> ELSE Contribution(Head(l)) \o Concatenation(Tail(l))

RECURSIVE SumOfLengths(_)
SumOfLengths(l) ==
    IF l = <<>> THEN 0 ELSE Len(Contribution(Head(l))) + SumOfLengths(Tail(l))

AllSupported(l) == \A n \in 1..Len(l) : TypeOf(l[n]) \in {"FeatureCollection", "Feature"}

\* C3: for inputs each tagged FeatureCollection or Feature, combine_geojsons
\* returns a FeatureCollection whose features are the in-order concatenation of
\* each collection's features and each bare feature, so as many as the
\* collections' features plus the bare features; for the empty list it returns
\* the envelope with no features and raises nothing.
C3_InOrderConcatenation ==
    (call.fn = "combine_geojsons" /\ ret.done /\ AllSupported(call.geojson_list)) =>
        /\ ret.out.ok
        /\ DOMAIN ret.out.value = {"type", "features"}
        /\ ret.out.value.type = "FeatureCollection"
        /\ ret.out.value.features = Concatenation(call.geojson_list)
        /\ Len(ret.out.value.features) = SumOfLengths(call.geojson_list)
        /\ call.geojson_list = <<>> => ret.out.value.features = <<>>

\* A collection of two features, then a bare feature: three features, in input order
C3_Witness ==
    /\ call.fn = "combine_geojsons" /\ ret.done /\ ret.out.ok
    /\ Len(call.geojson_list) = 2
    /\ call.geojson_list[1] =
          [type |-> "FeatureCollection", features |-> <<Feature("Deira"), Feature("Dubai")>>]
    /\ call.geojson_list[2] = Feature("Qatar")
    /\ ret.out.value.features = <<Feature("Deira"), Feature("Dubai"), Feature("Qatar")>>

----------------------------------------------------------------------------
(* Properties of the Run Query handler *)

\* The loop has handled the items before position i
InLoop == pc \in {"loop", "render", "done"} \/ (pc = "failed" /\ i >= 1)

\* Whether the resolution chain of request n succeeds
Succeeds(n) == ProcessItem(store, queries[n], "FeatureCollection").ok

\* The positions among the first k requests that succeed, and that fail
Succeeding(k) == {n \in 1..k : Succeeds(n)}
Failing(k) == {n \in 1..k : ~Succeeds(n)}

IsIncreasing(sq) == \A a, b \in 1..Len(sq) : a < b => sq[a] < sq[b]

\* C2: in the query loop every item is processed whatever items fail: a failing
\* item is reported once and adds nothing to the list, a succeeding item adds
\* exactly one entry, its own, and the entries keep the order of their
\* requests; the list handed to combine_geojsons is the one of all the items.
C2_PerItemContainment ==
    InLoop =>
        /\ Len(origin) = Len(geoJson_List)
        /\ IsIncreasing(origin)
        /\ {origin[n] : n \in 1..Len(origin)} = Succeeding(i - 1)
        /\ Len(origin) = Cardinality(Succeeding(i - 1))
        /\ \A n \in 1..Len(origin) :
              \E tag \in GeoInterfaceTags :
                  geoJson_List[n] = ProcessItem(store, queries[origin[n]], tag).geojson_dict
        /\ IsIncreasing([n \in 1..Len(warnings) |-> warnings[n].item])
        /\ {warnings[n].item : n \in 1..Len(warnings)} = Failing(i - 1)
        /\ \A n \in 1..Len(warnings) :
              /\ warnings[n].area_name = queries[warnings[n].item].area_name
              /\ warnings[n].err =
                    ProcessItem(store, queries[warnings[n].item], "FeatureCollection").err
        /\ pc # "loop" => i = Len(queries) + 1

\* A failing item between two succeeding ones: both entries are in the list, in
\* order, and the failure was reported
C2_Witness ==
    /\ pc = "render"
    /\ Len(queries) = 3
    /\ origin = <<1, 3>>
    /\ Len(warnings) = 1 /\ warnings[1].item = 2

\* The entries of the list with an unsupported type tag
Unsupported == {n \in 1..Len(geoJson_List) :
                   TypeOf(geoJson_List[n]) \notin {"FeatureCollection", "Feature"}}

\* C4: when an input of combine_geojsons, at any position, has a type tag other
\* than FeatureCollection or Feature, combine_geojsons raises the
\* unsupported-type error and returns no collection; the handler then ends with
\* that single top-level error, and no map is created or displayed, whatever
\* items succeeded.
C4_UnsupportedIsFatal ==
    (pc \in {"loop", "render", "done", "failed"} /\ Unsupported # {}) =>
          /\ ~CombineGeojsons(geoJson_List).ok
          /\ CombineGeojsons(geoJson_List).err = "ValueError: Unsupported GeoJSON type"
          /\ DOMAIN CombineGeojsons(geoJson_List) = {"ok", "err"}
          /\ pc \in {"loop", "failed"}
          /\ ~combined.set
          /\ ~shown
          /\ pc = "failed" => topError = <<"ValueError: Unsupported GeoJSON type">>

\* The handler failed on an unsupported entry that follows a supported one
C4_Witness ==
    /\ pc = "failed"
    /\ Len(geoJson_List) = 2
    /\ Unsupported = {2}
    /\ Len(geoJson_List[1].features) > 0
    /\ topError = <<"ValueError: Unsupported GeoJSON type">>

\* The features handed to the renderer
RenderedFeatures == combined.value.features

\* C5 as stated: every feature handed to the renderer carries a name property
\* and a Polygon or MultiPolygon geometry.
C5_Original ==
    combined.set =>
        \A n \in 1..Len(RenderedFeatures) :
            /\ "name" \in DOMAIN RenderedFeatures[n].properties
            /\ RenderedFeatures[n].geometry \in {"Polygon", "MultiPolygon"}

\* The geometries of the rows get_data returns for a request
LoadedGeometries(q) ==
    LET rows == GetData(store, q).gdf.rows
    IN  [n \in 1..Len(rows) |-> rows[n]["geometry"]]

\* C5: every feature handed to the renderer carries a name property (and no
\* other); a feature of a group query or of an admin_level 2 query has a
\* Polygon or MultiPolygon geometry; the features of a per-country shapefile
\* carry the geometries of the rows loaded, of whatever type, in row order.
C5_NameAndGeometry ==
    combined.set =>
        /\ \A n \in 1..Len(RenderedFeatures) :
              DOMAIN RenderedFeatures[n].properties = {"name"}
        /\ RenderedFeatures = Concatenation(geoJson_List)
        /\ \A k \in 1..Len(geoJson_List) :
              LET q == queries[origin[k]]
                  fs == geoJson_List[k].features
              IN  /\ (q.is_group_query \/ q.admin_level = 2) =>
                        \A n \in 1..Len(fs) : fs[n].geometry \in {"Polygon", "MultiPolygon"}
                  /\ [n \in 1..Len(fs) |-> fs[n].geometry] = LoadedGeometries(q)

\* A map was displayed that holds the country polygon of a country query (the
\* label point of that country was dropped) and a shapefile row whose geometry
\* is not a polygon
C5_Witness ==
    /\ shown
    /\ Len(geoJson_List) = 2
    /\ ~queries[origin[1]].is_group_query /\ queries[origin[1]].admin_level = 2
    /\ Len(geoJson_List[1].features) = 1
    /\ ~queries[origin[2]].is_group_query /\ queries[origin[2]].admin_level # 2
    /\ \E n \in 1..Len(geoJson_List[2].features) :
          geoJson_List[2].features[n].geometry \notin {"Polygon", "MultiPolygon"}

----------------------------------------------------------------------------
(* loaderService.py: the import session.                                   *)
(*                                                                         *)
(* The script runs from the top on every widget interaction.  A run that   *)
(* is inside import_osm blocks on the database and on the subprocess; an   *)
(* interaction that arrives meanwhile waits in `rerun`, and the running    *)
(* run is stopped at its next display call (st.empty, placeholder.text),   *)
(* which raises out of import_osm; the waiting interaction then gets its   *)
(* own run.  session_state outlives the runs.                              *)

MaxImports == 2     \* Start Import clicks accepted while history is shorter than this
MaxLines == 1       \* output lines read from one subprocess
MaxWaits == 1       \* failed connection attempts of one wait_for_db

ReturnCodes == {0, 1}
DataFiles == {"uae.osm.pbf"}
ImportModes == {"--create", "--append"}

\* os.path.join(DATA_DIR, selected_file)
JoinDataDir(selected_file) == [dir |-> "Datafiles", name |-> selected_file]

\* os.path.basename(file_path)
Basename(file_path) == file_path.name

\* status of lines 90-95
StatusOf(returncode) == IF returncode = 0 THEN "Success" ELSE "Failed"

\* The entry of lines 100-105
HistoryEntry(timestamp, file_path, mode, returncode) ==
    [timestamp |-> timestamp, file |-> Basename(file_path), mode |-> mode,
     status |-> StatusOf(returncode)]

\* A display call: the run is stopped here when an interaction is waiting
Stopped == rerun.pending

\* The run ended (by its last line or by an exception): nothing is running
ScriptEnded == [pc |-> "idle", file_path |-> None, mode |-> None, waits |-> 0]

\* Lines 19-24 on the first run of the session; a .pbf file is in DATA_DIR
InitLoader ==
    /\ store = [groups |-> GroupsJson, level1 |-> Level1File({"name", "ISO_A3"}),
                shp |-> ShpFiles({}, ShpBase("Polygon"))]
    /\ call = [fn |-> "none"]
    /\ ret = [done |-> FALSE]
    /\ IdleH
    /\ importing = FALSE
    /\ logs = <<>>
    /\ history = <<>>
    /\ script = ScriptEnded
    /\ process = NoProcess
    /\ rerun = NoRerun
    /\ now = 0
    /\ exits = <<>>

\* The user clicks Start Import or changes another widget (the selectbox, the
\* radio): the browser asks for a run with the widget values
Interact ==
    /\ script.pc # "off"
    /\ ~rerun.pending
    /\ \E button \in BOOLEAN, f \in DataFiles, m \in ImportModes :
         /\ button => Len(history) < MaxImports
         /\ rerun' = [pending |-> TRUE, button |-> button, selected_file |-> f,
                      import_mode |-> m]
    /\ UNCHANGED <<store, fvars, hvars, importing, logs, history, script, process, now,
                   exits>>

\* A run from the top for the waiting interaction: lines 119-126, then either
\* the entry of import_osm up to the first connection attempt (lines 45-46,
\* 27), or the rest of the script (lines 128-141, display only)
ScriptStart ==
    /\ script.pc = "idle"
    /\ rerun.pending
    /\ rerun' = NoRerun
    /\ IF rerun.button /\ ~importing
       THEN /\ importing' = TRUE
            /\ logs' = <<"Checking database connection...">>
            /\ script' = [pc |-> "wait_for_db",
                          file_path |-> JoinDataDir(rerun.selected_file),
                          mode |-> rerun.import_mode, waits |-> 0]
            /\ process' = NoProcess
       ELSE UNCHANGED <<importing, logs, script, process>>
    /\ UNCHANGED <<store, fvars, hvars, history, now, exits>>

\* One connection attempt of wait_for_db.  A refused connection logs and
\* sleeps.  An accepted one returns to import_osm, which logs (line 50) and
\* starts the subprocess (lines 68-76): Popen raises when the binary cannot be
\* run, and the run ends with the exception; otherwise st.empty() (line 78)
\* follows and the run blocks on the first line of output
WaitForDb ==
    /\ script.pc = "wait_for_db"
    /\ \/ /\ script.waits < MaxWaits
          /\ logs' = Append(logs, "Waiting for PostGIS...")
          /\ script' = [script EXCEPT !.waits = @ + 1]
          /\ UNCHANGED process
       \/ /\ logs' = logs \o <<"Database is ready.", "Importing">>
          /\ script' = ScriptEnded
          /\ UNCHANGED process
       \/ /\ logs' = logs \o <<"Database is ready.", "Importing">>
          /\ process' = [state |-> "running", lines |-> 0]
          /\ script' = IF Stopped THEN ScriptEnded ELSE [script EXCEPT !.pc = "read"]
    /\ UNCHANGED <<store, fvars, hvars, importing, history, rerun, now, exits>>

\* One iteration of `for line in process.stdout` (lines 82-85): the line is
\* shown before it is stored
ReadLine ==
    /\ script.pc = "read"
    /\ process.state = "running"
    /\ process.lines < MaxLines
    /\ process' = [process EXCEPT !.lines = @ + 1]
    /\ IF Stopped
       THEN /\ script' = ScriptEnded
            /\ UNCHANGED logs
       ELSE /\ logs' = Append(logs, "line")
            /\ UNCHANGED script
    /\ UNCHANGED <<store, fvars, hvars, importing, history, rerun, now, exits>>

\* The subprocess exits, read by a run or not; time has passed meanwhile
ProcessExit ==
    /\ process.state = "running"
    /\ \E returncode \in ReturnCodes :
         /\ process' = [state |-> "exited", lines |-> process.lines,
                        returncode |-> returncode]
         /\ exits' = Append(exits, returncode)
    /\ now' \in {now, now + 1}
    /\ UNCHANGED <<store, fvars, hvars, importing, logs, history, script, rerun>>

\* End of output: process.wait(), the status, the last display call (line 97),
\* then the history entry and the flag (lines 98-107) and the rest of the
\* script (lines 128-141)
FinishImport ==
    /\ script.pc = "read"
    /\ process.state = "exited"
    /\ script' = ScriptEnded
    /\ IF Stopped
       THEN UNCHANGED <<importing, logs, history>>
       ELSE /\ logs' = Append(logs, StatusOf(process.returncode))
            /\ history' = <<HistoryEntry(now, script.file_path, script.mode,
                                         process.returncode)>> \o history
            /\ importing' = FALSE
    /\ UNCHANGED <<store, fvars, hvars, process, rerun, now, exits>>

NextLoader == Interact \/ ScriptStart \/ WaitForDb \/ ReadLine \/ ProcessExit \/ FinishImport

SpecLoader == InitLoader /\ [][NextLoader]_vars

----------------------------------------------------------------------------
(* The import session: flag, history and status *)

\* A run is inside import_osm
InImportOsm == script.pc \in {"wait_for_db", "read"}

\* A step that enters import_osm does so with the flag false and sets it
ImportStartsWhileFalse ==
    (~InImportOsm /\ InImportOsm') => (~importing /\ importing')

\* No run is inside import_osm and the subprocess of the latest import_osm
\* call has exited
SubprocessExitedAndRunOver == script.pc = "idle" /\ process.state = "exited"

\* The flag is back to false once the subprocess has exited and the run is over
FlagClearedAfterExit == SubprocessExitedAndRunOver => ~importing

\* history holds one entry for each subprocess that exited, the newest first,
\* with the status of that subprocess's exit code
HistoryOfCompletedImports ==
    script.pc = "idle" =>
        /\ Len(history) = Len(exits)
        /\ \A k \in 1..Len(history) :
              /\ k <= Len(exits) =>
                    (history[k].status = "Success" <=> exits[Len(exits) + 1 - k] = 0)
              /\ history[k].status \in {"Success", "Failed"}
              /\ k < Len(history) => history[k].timestamp >= history[k + 1].timestamp

\* C11 as stated: an import starts only while the importing flag is false;
\* import_osm sets the flag on entry and, whenever the subprocess exits, sets
\* it back to false; each completed import prepends exactly one entry to
\* history (newest first, as many entries as completed imports), whose status
\* is Success if and only if the exit code is 0.
C11_ImportLifecycle ==
    /\ [][ImportStartsWhileFalse]_vars
    /\ [](InImportOsm => importing)
    /\ []FlagClearedAfterExit
    /\ []HistoryOfCompletedImports

\* The subprocess has exited after a run was stopped inside import_osm by a
\* second interaction: the flag is still true and history has no entry for it
C11_StuckFlag ==
    /\ script.pc = "idle"
    /\ process.state = "exited"
    /\ importing
    /\ Len(history) < Len(exits)

====
